---- MODULE Spec2Model ----
(***************************************************************************)
(* Model of the SPARQL tool adapter of nebucaz/pfm (src/tools/spendcast.py):*)
(* get_config, _execute_sparql_impl and the two entry points               *)
(* SPARQLTool._run / SPARQLTool._arun, together with the HTTP transport    *)
(* (httpx.AsyncClient) as far as the executor observes it.                 *)
(***************************************************************************)
EXTENDS Integers, Sequences, FiniteSets, TLC

VARIABLES
    env,    \* os.environ as get_config reads it: variable name -> value
    calls,  \* one record per tool call: its position in the code and its locals
    wire,   \* wire[c]: the requests the transport received from call c's client
    input,  \* the query string handed to validate_sparql_query
    verdicts, \* what validate_sparql_query returned for it, call after call
    toolCalls \* the agent's tool requests as handle_tool_errors sees them

vars == <<env, calls, wire, input, verdicts, toolCalls>>

\* ------------------------------------------------------------------ bounds

\* The number of tool calls (concurrent or in sequence) that are explored.
MaxCalls == 2

CallIds == 1..MaxCalls

\* ------------------------------------------------------------------ environment

EnvNames == <<"GRAPHDB_URL", "GRAPHDB_USER", "GRAPHDB_PASSWORD">>

\* os.getenv(name): None when the variable is unset, else its string.
Unset == [set |-> FALSE, val |-> ""]
Val(s) == [set |-> TRUE, val |-> s]

\* Variant: the test `x is None`, which lets an empty string through.
Falsy_NoneOnly(v) == ~v.set

\* Python truthiness of an os.getenv result: `not x` holds for None and "".
Falsy(v) == ~v.set \/ v.val = ""

EnvValues(name) ==
    CASE name = "GRAPHDB_URL" -> {Unset, Val(""), Val("http://db/sparql")}
      [] name = "GRAPHDB_USER" -> {Unset, Val(""), Val("alice")}
      [] name = "GRAPHDB_PASSWORD" -> {Unset, Val(""), Val("s3cret")}

Envs == { e \in [ {EnvNames[i] : i \in 1..3} -> UNION {EnvValues(EnvNames[i]) : i \in 1..3} ] :
            \A i \in 1..3 : e[EnvNames[i]] \in EnvValues(EnvNames[i]) }

\* ------------------------------------------------------------------ values

\* A JSON value / Python object as the tool returns it.  Every value has the
\* same three fields: an object's members are <<key, value>> pairs in items,
\* a string's characters are the parts of text (an f-string is the sequence
\* of its literal and formatted parts).
JObj(members) == [type |-> "object", items |-> members, text |-> <<>>]
JArr(elems) == [type |-> "array", items |-> elems, text |-> <<>>]
JStr(parts) == [type |-> "string", items |-> <<>>, text |-> parts]
JNull == [type |-> "null", items |-> <<>>, text |-> <<>>]

\* `key in value` for a dict.
HasKey(v, key) == v.type = "object" /\ \E i \in DOMAIN v.items : v.items[i][1] = key

\* value[key] for a dict that has the key.
Member(v, key) == v.items[CHOOSE i \in DOMAIN v.items : v.items[i][1] = key][2]

\* `s in msg` for a message built from parts.
Contains(parts, s) == \E i \in DOMAIN parts : parts[i] = s

\* The result of running a block of code: a returned value or a raised exception.
Return(v) == [kind |-> "return", value |-> v, exc |-> "", arg |-> <<>>]
Raise(cls, arg) == [kind |-> "raise", value |-> JNull, exc |-> cls, arg |-> arg]
NoResult == [kind |-> "none", value |-> JNull, exc |-> "", arg |-> <<>>]

\* ------------------------------------------------------------------ get_config

NoConfig == [url |-> "", username |-> "", password |-> ""]

NotSetMsg(name) == <<name, " environment variable not set.">>

\* Variant: the second test raises with the third variable's message.
get_config_WrongName(e) ==
    IF Falsy(e["GRAPHDB_URL"])
    THEN [result |-> Raise("ValueError", NotSetMsg("GRAPHDB_URL")), config |-> NoConfig]
    ELSE IF Falsy(e["GRAPHDB_USER"])
    THEN [result |-> Raise("ValueError", NotSetMsg("GRAPHDB_PASSWORD")), config |-> NoConfig]
    ELSE IF Falsy(e["GRAPHDB_PASSWORD"])
    THEN [result |-> Raise("ValueError", NotSetMsg("GRAPHDB_PASSWORD")), config |-> NoConfig]
    ELSE [result |-> NoResult,
          config |-> [url |-> e["GRAPHDB_URL"].val,
                      username |-> e["GRAPHDB_USER"].val,
                      password |-> e["GRAPHDB_PASSWORD"].val]]

\* Variant: the three tests stand in the opposite order.
get_config_PasswordFirst(e) ==
    IF Falsy(e["GRAPHDB_PASSWORD"])
    THEN [result |-> Raise("ValueError", NotSetMsg("GRAPHDB_PASSWORD")), config |-> NoConfig]
    ELSE IF Falsy(e["GRAPHDB_USER"])
    THEN [result |-> Raise("ValueError", NotSetMsg("GRAPHDB_USER")), config |-> NoConfig]
    ELSE IF Falsy(e["GRAPHDB_URL"])
    THEN [result |-> Raise("ValueError", NotSetMsg("GRAPHDB_URL")), config |-> NoConfig]
    ELSE [result |-> NoResult,
          config |-> [url |-> e["GRAPHDB_URL"].val,
                      username |-> e["GRAPHDB_USER"].val,
                      password |-> e["GRAPHDB_PASSWORD"].val]]

\* get_config(): the three variables are read, then tested in the order
\* URL, USER, PASSWORD; the first falsy one raises ValueError naming it.
get_config(e) ==
    IF Falsy(e["GRAPHDB_URL"])
    THEN [result |-> Raise("ValueError", NotSetMsg("GRAPHDB_URL")), config |-> NoConfig]
    ELSE IF Falsy(e["GRAPHDB_USER"])
    THEN [result |-> Raise("ValueError", NotSetMsg("GRAPHDB_USER")), config |-> NoConfig]
    ELSE IF Falsy(e["GRAPHDB_PASSWORD"])
    THEN [result |-> Raise("ValueError", NotSetMsg("GRAPHDB_PASSWORD")), config |-> NoConfig]
    ELSE [result |-> NoResult,
          config |-> [url |-> e["GRAPHDB_URL"].val,
                      username |-> e["GRAPHDB_USER"].val,
                      password |-> e["GRAPHDB_PASSWORD"].val]]

\* ------------------------------------------------------------------ queries

\* A query string as the sequence of its tokens.
TestQuery == <<"SELECT", " ", "*", " ", "WHERE", " ", "{", "?s ?p ?o", "}", " ", "LIMIT 10">>
PrefixedQuery == <<"select", " ", "?x", " ", "pfm:", " ", "ex:", " ", "{", "?s ?p ?o", "}">>

Queries == {TestQuery, PrefixedQuery}

\* ------------------------------------------------------------------ strings

\* The characters of each token a query is written with.
Chars(token) ==
    CASE token = "SELECT" -> <<"S", "E", "L", "E", "C", "T">>
      [] token = "select" -> <<"s", "e", "l", "e", "c", "t">>
      [] token = "Select" -> <<"S", "e", "l", "e", "c", "t">>
      [] token = "ASK" -> <<"A", "S", "K">>
      [] token = "CONSTRUCT" -> <<"C", "O", "N", "S", "T", "R", "U", "C", "T">>
      [] token = "DESCRIBE" -> <<"D", "E", "S", "C", "R", "I", "B", "E">>
      [] token = "PREFIX" -> <<"P", "R", "E", "F", "I", "X">>
      [] token = "BASE" -> <<"B", "A", "S", "E">>
      [] token = "WHERE" -> <<"W", "H", "E", "R", "E">>
      [] token = "LIMIT 10" -> <<"L", "I", "M", "I", "T", " ", "1", "0">>
      [] token = "pfm:" -> <<"p", "f", "m", ":">>
      [] token = "ex:" -> <<"e", "x", ":">>
      [] token = "index:" -> <<"i", "n", "d", "e", "x", ":">>
      [] token = "{" -> <<"{">>
      [] token = "}" -> <<"}">>
      [] token = "?s ?p ?o" -> <<"?", "s", " ", "?", "p", " ", "?", "o">>
      [] token = "?x" -> <<"?", "x">>
      [] token = "*" -> <<"*">>
      [] token = " " -> <<" ">>
      [] token = "\n" -> <<"\n">>

\* The query string: the characters of its tokens, one after the other.
RECURSIVE Flatten(_)
Flatten(tokens) ==
    IF tokens = <<>> THEN <<>> ELSE Chars(Head(tokens)) \o Flatten(Tail(tokens))

LowerLetters == <<"a", "b", "c", "d", "e", "f", "g", "h", "i", "j", "k", "l", "m", "n", "o", "p", "q", "r", "s", "t", "u", "v", "w", "x", "y", "z">>
UpperLetters == <<"A", "B", "C", "D", "E", "F", "G", "H", "I", "J", "K", "L", "M", "N", "O", "P", "Q", "R", "S", "T", "U", "V", "W", "X", "Y", "Z">>

\* The upper-case letter of each lower-case letter.
ToUpper ==
    [ch \in {LowerLetters[k] : k \in DOMAIN LowerLetters} |->
        UpperLetters[CHOOSE k \in DOMAIN LowerLetters : LowerLetters[k] = ch]]

\* str.upper(): letters are upper-cased, every other character is kept.
upper(s) == [i \in DOMAIN s |-> IF s[i] \in DOMAIN ToUpper THEN ToUpper[s[i]] ELSE s[i]]

Whitespace == {" ", "\n", "\t"}

\* str.strip(): whitespace is dropped at both ends.
RECURSIVE lstrip(_)
lstrip(s) == IF s # <<>> /\ Head(s) \in Whitespace THEN lstrip(Tail(s)) ELSE s

RECURSIVE rstrip(_)
rstrip(s) ==
    IF s # <<>> /\ s[Len(s)] \in Whitespace THEN rstrip(SubSeq(s, 1, Len(s) - 1)) ELSE s

strip(s) == rstrip(lstrip(s))

\* `p in s` for strings: p occurs in s as a run of consecutive characters.
In(p, s) == \E i \in 1..(Len(s) - Len(p) + 1) : SubSeq(s, i, i + Len(p) - 1) = p

\* s.startswith(p)
startswith(s, p) == Len(p) <= Len(s) /\ SubSeq(s, 1, Len(p)) = p

\* s.count(ch) for a single character.
count(s, ch) == Cardinality({ i \in DOMAIN s : s[i] = ch })

\* sep.join(items), as the parts of the resulting string.
RECURSIVE join(_, _)
join(sep, items) ==
    IF items = <<>> THEN <<>>
    ELSE IF Len(items) = 1 THEN <<items[1]>>
    ELSE <<items[1], sep>> \o join(sep, Tail(items))

\* ---------------------------------------------------------------- validator

Verdict(is_valid, message) == [is_valid |-> is_valid, message |-> message]

\* One rule's finding on a query string: whether the rule's `if` is taken
\* and the message its `return False, ...` carries.
Finding(failed, message) == [failed |-> failed, message |-> message]

required_prefixes == <<"pfm:", "ex:">>

\* The loop over required_prefixes, which appends the ones not in the query.
missing_prefixes(s) == SelectSeq(required_prefixes, LAMBDA prefix : ~In(Chars(prefix), s))

\* Variant: the message names every required prefix.
PrefixRule_ListsAll(s) ==
    Finding(missing_prefixes(s) # <<>>,
            <<"Missing required prefixes: ">> \o join(", ", required_prefixes))

\* if missing_prefixes: return False, f"Missing required prefixes: {...}"
PrefixRule(s) ==
    Finding(missing_prefixes(s) # <<>>,
            <<"Missing required prefixes: ">> \o join(", ", missing_prefixes(s)))

Keywords == {"SELECT", "ASK", "CONSTRUCT", "DESCRIBE"}

\* Variant: the declarations a query may open with count as its start.
KeywordRule_PrologueAllowed(s) ==
    LET start == upper(strip(s))
    IN Finding(~\E kw \in Keywords \cup {"PREFIX", "BASE"} : startswith(start, Chars(kw)),
               <<"Query must start with SELECT, ASK, CONSTRUCT, or DESCRIBE">>)

\* Variant: the query is not upper-cased before the comparison.
KeywordRule_CaseSensitive(s) ==
    LET start == strip(s)
    IN Finding(~\E kw \in Keywords : startswith(start, Chars(kw)),
               <<"Query must start with SELECT, ASK, CONSTRUCT, or DESCRIBE">>)

\* if not query.strip().upper().startswith((...)): return False, ...
KeywordRule(s) ==
    LET start == upper(strip(s))
    IN Finding(~\E kw \in Keywords : startswith(start, Chars(kw)),
               <<"Query must start with SELECT, ASK, CONSTRUCT, or DESCRIBE">>)

\* Variant: only an unclosed brace is reported.
BalanceRule_Surplus(s) ==
    Finding(count(s, "{") > count(s, "}"), <<"Unbalanced braces in SPARQL query">>)

\* if query.count("{") != query.count("}"): return False, ...
BalanceRule(s) ==
    Finding(count(s, "{") # count(s, "}"), <<"Unbalanced braces in SPARQL query">>)

\* Variant: the check for braces is dropped.
PresenceRule_Never(s) == Finding(FALSE, <<"Missing WHERE clause with braces">>)

\* if "{" not in query or "}" not in query: return False, ...
PresenceRule(s) ==
    Finding(~In(<<"{">>, s) \/ ~In(<<"}">>, s), <<"Missing WHERE clause with braces">>)

\* The ifs are tried from the top and the first one taken returns; when
\* none is taken the function returns (True, "Query is valid").
FirstFailure(findings) ==
    IF \E i \in DOMAIN findings : findings[i].failed
    THEN Verdict(FALSE, findings[CHOOSE i \in DOMAIN findings :
                                    /\ findings[i].failed
                                    /\ \A j \in 1..(i - 1) : ~findings[j].failed].message)
    ELSE Verdict(TRUE, <<"Query is valid">>)

\* Variant: the keyword is checked before the prefixes.
validate_KeywordFirst(query) ==
    LET s == Flatten(query)
    IN FirstFailure(<<KeywordRule(s), PrefixRule(s), BalanceRule(s), PresenceRule(s)>>)

\* Variant: the presence of braces is checked before their balance.
validate_PresenceBeforeBalance(query) ==
    LET s == Flatten(query)
    IN FirstFailure(<<PrefixRule(s), KeywordRule(s), PresenceRule(s), BalanceRule(s)>>)

\* validate_sparql_query(query), on the query's characters.
validate_sparql_query(query) ==
    LET s == Flatten(query)
    IN FirstFailure(<<PrefixRule(s), KeywordRule(s), BalanceRule(s), PresenceRule(s)>>)

\* ------------------------------------------------------------------ transport

\* The fixed timeout of client.post, in seconds.
Timeout == 30

Headers == << <<"Content-Type", "application/x-www-form-urlencoded">>,
              <<"Accept", "application/sparql-results+json">> >>

\* httpx.BasicAuth(username, password)
BasicAuth(username, password) == [scheme |-> "Basic", username |-> username, password |-> password]

\* Variant: the credentials are read once, when the module is loaded, and
\* every request is signed with them.
PostRequest_ModuleAuth(config, query) ==
    [method |-> "POST", url |-> config.url, headers |-> Headers,
     data |-> << <<"query", query>> >>,
     auth |-> BasicAuth("alice", "s3cret"),
     timeout |-> Timeout]

\* The request client.post hands to the transport.
PostRequest(config, query) ==
    [method |-> "POST", url |-> config.url, headers |-> Headers,
     data |-> << <<"query", query>> >>,
     auth |-> BasicAuth(config.username, config.password),
     timeout |-> Timeout]

\* Response bodies, as the bytes on the wire.
ResultsBody == "{\"results\": {\"bindings\": []}}"
ErrorKeyBody == "{\"error\": \"boom\"}"
PlainBody == "server error"
BadBytesBody == "\\x80\\x81\\x82\\x83\\x84"

Bodies == {ResultsBody, ErrorKeyBody, PlainBody, BadBytesBody}

\* The bodies that are JSON texts.
JsonBodies == {ResultsBody, ErrorKeyBody}

Statuses == {200, 299, 300, 500}

\* What the transport does with a request: it answers with a status and a
\* body, or it fails (name resolution, connection refused, timeout).
Answer(status, body) == [kind |-> "response", status |-> status, body |-> body, exc |-> "", desc |-> ""]
Failure(cls, desc) == [kind |-> "fail", status |-> 0, body |-> "", exc |-> cls, desc |-> desc]
NoResponse == [kind |-> "none", status |-> 0, body |-> "", exc |-> "", desc |-> ""]

Failures == { Failure("ConnectError", "[Errno 111] Connection refused"),
              Failure("ConnectError", "[Errno -2] Name or service not known"),
              Failure("ReadTimeout", "") }

\* Every body under 200, the plain body under every status, and a JSON body
\* under a server error.
Answers ==
    { Answer(200, b) : b \in Bodies } \cup { Answer(s, PlainBody) : s \in Statuses }
        \cup { Answer(500, ResultsBody) }

TransportBehaviours == Answers \cup Failures

\* response.text: the body decoded with errors="replace".
Text(body) == IF body = BadBytesBody THEN "\\ufffd\\ufffd\\ufffd\\ufffd\\ufffd" ELSE body

\* response.json(): json.loads of the body's bytes.
json(body) ==
    CASE body = ResultsBody ->
            Return(JObj(<< <<"results", JObj(<< <<"bindings", JArr(<<>>)>> >>)>> >>))
      [] body = ErrorKeyBody -> Return(JObj(<< <<"error", JStr(<<"boom">>)>> >>))
      [] body = PlainBody -> Raise("JSONDecodeError", <<"Expecting value">>)
      [] body = BadBytesBody -> Raise("UnicodeDecodeError", <<"invalid start byte">>)

\* Variant: no upper limit on the success range.
is_success_NoUpper(status) == 200 <= status

\* response.is_success, which raise_for_status tests.
is_success(status) == 200 <= status /\ status <= 299

\* The classes an exception is an instance of.
Bases(cls) ==
    CASE cls = "HTTPStatusError" -> {"HTTPStatusError", "HTTPError", "Exception"}
      [] cls = "ConnectError" -> {"ConnectError", "NetworkError", "TransportError", "RequestError", "HTTPError", "Exception"}
      [] cls = "ReadTimeout" -> {"ReadTimeout", "TimeoutException", "TransportError", "RequestError", "HTTPError", "Exception"}
      [] cls = "JSONDecodeError" -> {"JSONDecodeError", "ValueError", "Exception"}
      [] cls = "UnicodeDecodeError" -> {"UnicodeDecodeError", "UnicodeError", "ValueError", "Exception"}
      [] cls = "KeyboardInterrupt" -> {"KeyboardInterrupt", "BaseException"}
      [] OTHER -> {cls, "Exception"}

IsInstance(cls, base) == base \in Bases(cls)

\* ------------------------------------------------------------------ handle_tool_errors

\* ToolMessage(content=..., tool_call_id=...)
ToolMessage(content, id) == [content |-> content, tool_call_id |-> id]

NoMessage == ToolMessage(<<>>, "")

\* How handler(request), or handle_tool_errors itself, ends: with a message
\* or with an exception.
Returned(msg) == [kind |-> "return", message |-> msg, exc |-> "", arg |-> <<>>]
Raised(cls, arg) == [kind |-> "raise", message |-> NoMessage, exc |-> cls, arg |-> arg]
NotEnded == [kind |-> "none", message |-> NoMessage, exc |-> "", arg |-> <<>>]

\* A tool request the middleware has not seen yet.
IdleToolCall == [pc |-> "idle", id |-> "", handled |-> NotEnded, result |-> NotEnded]

\* Variant: only the tool's own ValueError is translated.
handle_tool_errors_ValueErrorOnly(id, handled) ==
    IF handled.kind = "raise" /\ IsInstance(handled.exc, "ValueError")
    THEN Returned(ToolMessage(
            <<"Tool error: Please check your input and try again. (">> \o handled.arg \o <<")">>,
            id))
    ELSE handled

\* handle_tool_errors(request, handler), for a request with tool call id
\* `id` whose handler(request) ended as `handled`: the try returns the
\* handler's result, `except Exception as e` turns e into a ToolMessage
\* carrying str(e), and any other exception passes through.
handle_tool_errors(id, handled) ==
    IF handled.kind = "raise" /\ IsInstance(handled.exc, "Exception")
    THEN Returned(ToolMessage(
            <<"Tool error: Please check your input and try again. (">> \o handled.arg \o <<")">>,
            id))
    ELSE handled

\* ------------------------------------------------------------------ _execute_sparql_impl

\* {"error": msg}
ErrorRecord(msg) == JObj(<< <<"error", JStr(msg)>> >>)

\* Variant: the bindings are unwrapped, return response.json()["results"].
TryBody_Unwrap(resp) ==
    IF resp.kind = "fail" THEN Raise(resp.exc, <<resp.desc>>)
    ELSE IF ~is_success(resp.status) THEN Raise("HTTPStatusError", <<"status error">>)
    ELSE LET r == json(resp.body) IN
         IF r.kind = "return" /\ HasKey(r.value, "results")
         THEN Return(Member(r.value, "results"))
         ELSE r

\* The body of the try block once the transport has acted on the request:
\* client.post returns the response or raises the transport's failure, then
\* response.raise_for_status(), then return response.json().
TryBody(resp) ==
    IF resp.kind = "fail" THEN Raise(resp.exc, <<resp.desc>>)
    ELSE IF ~is_success(resp.status) THEN Raise("HTTPStatusError", <<"status error">>)
    ELSE json(resp.body)

\* Variant: no except clause for httpx.RequestError.
Handlers_NoRequestError(pending, resp) ==
    IF pending.kind # "raise" THEN pending
    ELSE IF IsInstance(pending.exc, "HTTPStatusError")
    THEN Return(ErrorRecord(<<"HTTP error occurred: ", ToString(resp.status), " - ", Text(resp.body)>>))
    ELSE IF IsInstance(pending.exc, "JSONDecodeError")
    THEN Return(ErrorRecord(<<"Invalid JSON response from GraphDB.">>))
    ELSE pending

\* Variant: a body that does not decode yields an empty result, return {}.
Handlers_EmptyOnDecode(pending, resp) ==
    IF pending.kind # "raise" THEN pending
    ELSE IF IsInstance(pending.exc, "HTTPStatusError")
    THEN Return(ErrorRecord(<<"HTTP error occurred: ", ToString(resp.status), " - ", Text(resp.body)>>))
    ELSE IF IsInstance(pending.exc, "RequestError")
    THEN Return(ErrorRecord(<<"An error occurred while connecting to GraphDB: ", pending.arg[1]>>))
    ELSE IF IsInstance(pending.exc, "JSONDecodeError")
    THEN Return(JObj(<<>>))
    ELSE pending

\* The except clauses, tried in order on what left the try block; resp is
\* e.response.  An exception none of them matches propagates.
Handlers(pending, resp) ==
    IF pending.kind # "raise" THEN pending
    ELSE IF IsInstance(pending.exc, "HTTPStatusError")
    THEN Return(ErrorRecord(<<"HTTP error occurred: ", ToString(resp.status), " - ", Text(resp.body)>>))
    ELSE IF IsInstance(pending.exc, "RequestError")
    THEN Return(ErrorRecord(<<"An error occurred while connecting to GraphDB: ", pending.arg[1]>>))
    ELSE IF IsInstance(pending.exc, "JSONDecodeError")
    THEN Return(ErrorRecord(<<"Invalid JSON response from GraphDB.">>))
    ELSE pending

\* ------------------------------------------------------------------ state

\* No request: the value of a request slot that is empty.
NoRequest ==
    [method |-> "", url |-> "", headers |-> <<>>, data |-> <<>>,
     auth |-> BasicAuth("", ""), timeout |-> 0]

\* Which request a response answers: the connection (the client that owns
\* it) and the request sent on it.
NoAnswer == [conn |-> 0, request |-> NoRequest]

\* A call that has not been made yet.
IdleCall ==
    [pc |-> "idle", entry |-> "", inLoop |-> FALSE, query |-> <<>>,
     config |-> NoConfig, client |-> "none", clientId |-> 0,
     answers |-> NoAnswer, response |-> NoResponse,
     pending |-> NoResult, outcome |-> NoResult]

Init ==
    /\ env \in Envs
    /\ calls = [c \in CallIds |-> IdleCall]
    /\ wire = [c \in CallIds |-> <<>>]
    /\ input = <<>>
    /\ verdicts = <<>>
    /\ toolCalls = [c \in CallIds |-> IdleToolCall]

\* Calls are numbered in the order they are made.
MayInvoke(c) ==
    /\ calls[c].pc = "idle"
    /\ \A d \in CallIds : d < c => calls[d].pc # "idle"

\* Variant: the coroutine is run on the loop that is already running
\* (a nested run) instead of being refused.
Run_Nested(c, q, loop) ==
    /\ MayInvoke(c)
    /\ calls' = [calls EXCEPT ![c] =
          [@ EXCEPT !.pc = "start", !.entry = "_run", !.inLoop = loop, !.query = q]]
    /\ UNCHANGED <<env, wire>>

\* SPARQLTool._run(query): asyncio.run(...) raises RuntimeError when the
\* calling thread already runs an event loop, before the coroutine starts;
\* otherwise it runs the executor to completion.
Run(c, q, loop) ==
    /\ MayInvoke(c)
    /\ calls' = [calls EXCEPT ![c] =
          IF loop
          THEN [@ EXCEPT !.pc = "done", !.entry = "_run", !.inLoop = TRUE, !.query = q,
                         !.outcome = Raise("RuntimeError",
                              <<"asyncio.run() cannot be called from a running event loop">>)]
          ELSE [@ EXCEPT !.pc = "start", !.entry = "_run", !.query = q]]
    /\ UNCHANGED <<env, wire>>

\* Variant: the await is missing, so the caller gets the coroutine object.
Arun_NoAwait(c, q) ==
    /\ MayInvoke(c)
    /\ calls' = [calls EXCEPT ![c] =
          [@ EXCEPT !.pc = "done", !.entry = "_arun", !.inLoop = TRUE, !.query = q,
                    !.outcome = Return(JStr(<<"<coroutine object _execute_sparql_impl>">>))]]
    /\ UNCHANGED <<env, wire>>

\* SPARQLTool._arun(query): awaited on the running event loop.
Arun(c, q) ==
    /\ MayInvoke(c)
    /\ calls' = [calls EXCEPT ![c] =
          [@ EXCEPT !.pc = "start", !.entry = "_arun", !.inLoop = TRUE, !.query = q]]
    /\ UNCHANGED <<env, wire>>

\* Variant: the configuration is kept in a module-level cache once a call
\* has loaded it.
LoadConfig_Cached(c) ==
    /\ calls[c].pc = "start"
    /\ LET r == get_config(env)
           cached == \E d \in CallIds : calls[d].config # NoConfig
           first == CHOOSE d \in CallIds : calls[d].config # NoConfig
       IN calls' = [calls EXCEPT ![c] =
             IF cached THEN [@ EXCEPT !.pc = "configured", !.config = calls[first].config]
             ELSE IF r.result.kind = "raise"
             THEN [@ EXCEPT !.pc = "done", !.outcome = r.result]
             ELSE [@ EXCEPT !.pc = "configured", !.config = r.config]]
    /\ UNCHANGED <<env, wire>>

\* Variant: a missing endpoint is written into the environment as a default
\* before the configuration is read.
LoadConfig_FillsDefault(c) ==
    /\ calls[c].pc = "start"
    /\ env' = IF Falsy(env["GRAPHDB_URL"])
              THEN [env EXCEPT !["GRAPHDB_URL"] = Val("http://db/sparql")]
              ELSE env
    /\ LET r == get_config(env') IN
       calls' = [calls EXCEPT ![c] =
          IF r.result.kind = "raise"
          THEN [@ EXCEPT !.pc = "done", !.outcome = r.result]
          ELSE [@ EXCEPT !.pc = "configured", !.config = r.config]]
    /\ UNCHANGED wire

\* config = get_config(); a ValueError leaves the executor at once.
LoadConfig(c) ==
    /\ calls[c].pc = "start"
    /\ LET r == get_config(env) IN
       calls' = [calls EXCEPT ![c] =
          IF r.result.kind = "raise"
          THEN [@ EXCEPT !.pc = "done", !.outcome = r.result]
          ELSE [@ EXCEPT !.pc = "configured", !.config = r.config]]
    /\ UNCHANGED <<env, wire>>

\* Variant: one client for the whole module, created once and used (and
\* closed) by every call.
OpenClient_Shared(c) ==
    /\ calls[c].pc = "configured"
    /\ calls' = [calls EXCEPT ![c] = [@ EXCEPT !.pc = "client_open", !.client = "open", !.clientId = 1]]
    /\ UNCHANGED <<env, wire>>

\* async with httpx.AsyncClient() as client: the constructor runs inside the
\* call, so the client is a new object of this call (numbered by the call).
OpenClient(c) ==
    /\ calls[c].pc = "configured"
    /\ calls' = [calls EXCEPT ![c] = [@ EXCEPT !.pc = "client_open", !.client = "open", !.clientId = c]]
    /\ UNCHANGED <<env, wire>>

\* Variant: a client kept across calls, whose cookie jar adds a header once
\* an earlier call has received a response.
Post_SharedCookies(c) ==
    /\ calls[c].pc = "client_open"
    /\ LET req == PostRequest(calls[c].config, calls[c].query)
           seen == \E d \in CallIds \ {c} : calls[d].response.kind = "response"
       IN wire' = [wire EXCEPT ![c] =
             Append(@, IF seen THEN [req EXCEPT !.headers = Append(@, <<"Cookie", "session">>)]
                               ELSE req)]
    /\ calls' = [calls EXCEPT ![c] = [@ EXCEPT !.pc = "awaiting"]]
    /\ UNCHANGED env

\* Variant: the executor validates the query first and answers an invalid
\* one with an error record, without sending anything.
Post_Validated(c) ==
    /\ calls[c].pc = "client_open"
    /\ LET v == validate_sparql_query(calls[c].query) IN
       IF v.is_valid
       THEN /\ wire' = [wire EXCEPT ![c] = Append(@, PostRequest(calls[c].config, calls[c].query))]
            /\ calls' = [calls EXCEPT ![c] = [@ EXCEPT !.pc = "awaiting"]]
       ELSE /\ wire' = wire
            /\ calls' = [calls EXCEPT ![c] =
                  [@ EXCEPT !.pc = "done", !.client = "closed",
                            !.outcome = Return(ErrorRecord(v.message))]]
    /\ UNCHANGED env

\* await client.post(config.url, headers=headers, data=data, auth=auth, timeout=30.0)
Post(c) ==
    /\ calls[c].pc = "client_open"
    /\ wire' = [wire EXCEPT ![c] = Append(@, PostRequest(calls[c].config, calls[c].query))]
    /\ calls' = [calls EXCEPT ![c] = [@ EXCEPT !.pc = "awaiting"]]
    /\ UNCHANGED env

\* The request call c's client has in flight.
InFlight(c) == [conn |-> calls[c].clientId, request |-> wire[c][Len(wire[c])]]

\* Variant: the calls share one connection and a response goes to whichever
\* call resumes first, not to the call whose request it answers.
Receive_CrossTalk(c, resp) ==
    /\ calls[c].pc = "awaiting"
    /\ LET first == CHOOSE d \in CallIds :
                        /\ calls[d].pc = "awaiting"
                        /\ \A e \in CallIds : calls[e].pc = "awaiting" => d <= e
       IN calls' = [calls EXCEPT ![c] =
             [@ EXCEPT !.pc = "exiting", !.answers = InFlight(first),
                       !.response = resp, !.pending = TryBody(resp)]]
    /\ UNCHANGED <<env, wire>>

\* await client.post(...) resumes: the transport has answered the request
\* the call's own client sent, or failed on it; the rest of the try block
\* runs on that.
Receive(c, resp) ==
    /\ calls[c].pc = "awaiting"
    /\ calls' = [calls EXCEPT ![c] =
          [@ EXCEPT !.pc = "exiting", !.answers = InFlight(c),
                    !.response = resp, !.pending = TryBody(resp)]]
    /\ UNCHANGED <<env, wire>>

\* Variant: a transport failure is retried with the same client.
Exit_Retry(c) ==
    /\ calls[c].pc = "exiting"
    /\ calls' = [calls EXCEPT ![c] =
          IF calls[c].response.kind = "fail"
          THEN [@ EXCEPT !.pc = "client_open", !.response = NoResponse, !.pending = NoResult]
          ELSE [@ EXCEPT !.pc = "done", !.client = "closed",
                         !.outcome = Handlers(calls[c].pending, calls[c].response)]]
    /\ UNCHANGED <<env, wire>>

\* Variant: after a transport failure the call waits for the response
\* again instead of leaving the try block.
Exit_AwaitAgain(c) ==
    /\ calls[c].pc = "exiting"
    /\ calls' = [calls EXCEPT ![c] =
          IF calls[c].response.kind = "fail"
          THEN [@ EXCEPT !.pc = "awaiting", !.response = NoResponse, !.pending = NoResult]
          ELSE [@ EXCEPT !.pc = "done", !.client = "closed",
                         !.outcome = Handlers(calls[c].pending, calls[c].response)]]
    /\ UNCHANGED <<env, wire>>

\* Variant: the client is closed by hand after the try block's last
\* statement, so an exception leaves it open.
Exit_LeakOnError(c) ==
    /\ calls[c].pc = "exiting"
    /\ calls' = [calls EXCEPT ![c] =
          [@ EXCEPT !.pc = "done",
                    !.client = IF calls[c].pending.kind = "raise" THEN "open" ELSE "closed",
                    !.outcome = Handlers(calls[c].pending, calls[c].response)]]
    /\ UNCHANGED <<env, wire>>

\* The async with block is left (the client is closed), the except clauses
\* run, and the call hands its outcome to the caller.
Exit(c) ==
    /\ calls[c].pc = "exiting"
    /\ calls' = [calls EXCEPT ![c] =
          [@ EXCEPT !.pc = "done", !.client = "closed",
                    !.outcome = Handlers(calls[c].pending, calls[c].response)]]
    /\ UNCHANGED <<env, wire>>

\* No statement of the executor calls validate_sparql_query, so no step of
\* a call touches the validator's input or result.
Next ==
    /\ \E c \in CallIds :
        \/ \E q \in Queries, loop \in BOOLEAN : Run(c, q, loop)
        \/ \E q \in Queries : Arun(c, q)
        \/ LoadConfig(c)
        \/ OpenClient(c)
        \/ Post(c)
        \/ \E resp \in TransportBehaviours : Receive(c, resp)
        \/ Exit(c)
    /\ UNCHANGED <<input, verdicts, toolCalls>>

Spec == Init /\ [][Next]_vars

\* The process was started with all three values set: every call gets past
\* get_config and goes to the network.
CompleteEnv ==
    [n \in {EnvNames[i] : i \in 1..3} |->
        CHOOSE v \in EnvValues(n) : v.set /\ v.val # ""]

InitConfigured == Init /\ env = CompleteEnv

SpecConfigured == InitConfigured /\ [][Next]_vars

\* Every earlier call has handed its outcome to its caller.
AllEarlierDone(c) == \A d \in CallIds : d < c => calls[d].pc = "done"

\* The calls made one after the other: a call is made only when the calls
\* before it have finished.
NextSeq ==
    /\ \E c \in CallIds :
        \/ AllEarlierDone(c) /\ \E q \in Queries, loop \in BOOLEAN : Run(c, q, loop)
        \/ AllEarlierDone(c) /\ \E q \in Queries : Arun(c, q)
        \/ LoadConfig(c)
        \/ OpenClient(c)
        \/ Post(c)
        \/ \E resp \in TransportBehaviours : Receive(c, resp)
        \/ Exit(c)
    /\ UNCHANGED <<input, verdicts, toolCalls>>

SpecSeq == Init /\ [][NextSeq]_vars

\* ------------------------------------------------- the validator on its own

\* The longest run of prefix and brace tokens after a query's opening words.
MaxTailLen == 4

\* How often the validator is called on the query.
MaxValidations == 2

\* How a query opens: nothing, a keyword in some case (after whitespace or
\* not), another word, or only whitespace.
Heads ==
    { <<>>, <<" ">>, <<"SELECT", " ">>, <<"select", " ">>, <<"\n", " ", "Select", " ">>,
      <<"ASK", " ">>, <<"CONSTRUCT", " ">>, <<"DESCRIBE", " ">>, <<"PREFIX", " ">>,
      <<"BASE", " ">> }

\* What follows: the prefixes (and a word that merely ends in "ex:") and
\* braces, in any order and number.
TailTokens == {"pfm:", "ex:", "index:", "{", "}"}

RECURSIVE SeqsUpTo(_, _)
SeqsUpTo(tokens, n) ==
    IF n = 0 THEN { <<>> }
    ELSE LET shorter == SeqsUpTo(tokens, n - 1)
         IN shorter \cup { Append(t, x) : t \in shorter, x \in tokens }

ValidatorInputs ==
    Queries \cup { h \o t : h \in Heads, t \in SeqsUpTo(TailTokens, MaxTailLen) }

\* The validator needs no configuration and no call of the executor.
InitValidate ==
    /\ env = [n \in {EnvNames[i] : i \in 1..3} |-> Unset]
    /\ calls = [c \in CallIds |-> IdleCall]
    /\ wire = [c \in CallIds |-> <<>>]
    /\ input \in ValidatorInputs
    /\ verdicts = <<>>
    /\ toolCalls = [c \in CallIds |-> IdleToolCall]

\* Variant: the validator first looks whether the endpoint is configured.
Validate_ReadsEnv ==
    /\ Len(verdicts) < MaxValidations
    /\ verdicts' = Append(verdicts,
          IF Falsy(env["GRAPHDB_URL"])
          THEN Verdict(FALSE, NotSetMsg("GRAPHDB_URL"))
          ELSE validate_sparql_query(input))
    /\ UNCHANGED <<env, calls, wire, input, toolCalls>>

\* validate_sparql_query(input) is called and returns.
Validate ==
    /\ Len(verdicts) < MaxValidations
    /\ verdicts' = Append(verdicts, validate_sparql_query(input))
    /\ UNCHANGED <<env, calls, wire, input, toolCalls>>

NextValidate == Validate

SpecValidate == InitValidate /\ [][NextValidate]_vars

\* ------------------------------------------- the host changes the environment

\* A second complete configuration: another endpoint and other credentials.
OtherEnv ==
    [n \in {EnvNames[i] : i \in 1..3} |->
        CASE n = "GRAPHDB_URL" -> Val("http://db2/sparql")
          [] n = "GRAPHDB_USER" -> Val("bob")
          [] n = "GRAPHDB_PASSWORD" -> Val("hunter2")]

\* The host (load_dotenv, or any os.environ assignment of the process) puts
\* another environment in force.  On the event loop this cannot happen
\* between a call's entry and its get_config(): no await lies between them.
SetEnv(e) ==
    /\ e # env
    /\ \A c \in CallIds : calls[c].pc # "start"
    /\ env' = e
    /\ UNCHANGED <<calls, wire, input, verdicts, toolCalls>>

\* The strings the validator is called on while the environment changes: the
\* empty string, whitespace only, every opening, and the two full queries.
PureInputs == Queries \cup Heads

InitPure ==
    /\ env \in Envs
    /\ calls = [c \in CallIds |-> IdleCall]
    /\ wire = [c \in CallIds |-> <<>>]
    /\ input \in PureInputs
    /\ verdicts = <<>>
    /\ toolCalls = [c \in CallIds |-> IdleToolCall]

\* The validator is called now and then; in between the environment changes.
NextPure ==
    \/ Validate
    \/ \E e \in Envs \cup {OtherEnv} : SetEnv(e)

SpecPure == InitPure /\ [][NextPure]_vars

\* The environments the host puts in force while calls are made: two
\* complete ones, one with an empty password, one with nothing set.
HostEnvs ==
    { CompleteEnv, OtherEnv,
      [CompleteEnv EXCEPT !["GRAPHDB_PASSWORD"] = Val("")],
      [n \in {EnvNames[i] : i \in 1..3} |-> Unset] }

\* What the endpoint does in these runs: a payload, a status error, a body
\* that makes response.json() raise past the handlers, and a timeout.
HostResponses ==
    { Answer(200, ResultsBody), Answer(500, PlainBody), Answer(200, BadBytesBody),
      Failure("ReadTimeout", "") }

InitHost ==
    /\ env \in HostEnvs
    /\ calls = [c \in CallIds |-> IdleCall]
    /\ wire = [c \in CallIds |-> <<>>]
    /\ input = TestQuery
    /\ verdicts = <<>>
    /\ toolCalls = [c \in CallIds |-> IdleToolCall]

\* Tool calls, calls of the validator and changes of the environment, in any
\* order.
NextHost ==
    \/ /\ \E c \in CallIds :
            \/ Arun(c, TestQuery)
            \/ LoadConfig(c)
            \/ OpenClient(c)
            \/ Post(c)
            \/ \E resp \in HostResponses : Receive(c, resp)
            \/ Exit(c)
       /\ UNCHANGED <<input, verdicts, toolCalls>>
    \/ Validate
    \/ \E e \in HostEnvs : SetEnv(e)

SpecHost == InitHost /\ [][NextHost]_vars

\* --------------------------------------------------- configuration loading

\* Calls as far as get_config(), under every environment, with the host
\* setting and unsetting values between them.
NextLoad ==
    \/ /\ \E c \in CallIds : Arun(c, TestQuery) \/ LoadConfig(c)
       /\ UNCHANGED <<input, verdicts, toolCalls>>
    \/ \E e \in Envs : SetEnv(e)

SpecLoad == Init /\ [][NextLoad]_vars

\* ------------------------------------------------- the agent's tool requests

ToolCallIds == {"call_1", "call_2"}

\* How handler(request) can end for the SPARQL tool: a message with the
\* payload or with an error record, one of the exceptions the tool lets out
\* (configuration failure, _run inside a running loop, undecodable body),
\* or an interrupt of the process while the tool runs.
HandlerOutcomes(id) ==
    { Returned(ToolMessage(<<ResultsBody>>, id)),
      Returned(ToolMessage(<<"{\"error\": \"Invalid JSON response from GraphDB.\"}">>, id)),
      Raised("ValueError", NotSetMsg("GRAPHDB_URL")),
      Raised("RuntimeError", <<"asyncio.run() cannot be called from a running event loop">>),
      Raised("UnicodeDecodeError",
             <<"'utf-8' codec can't decode byte 0x80 in position 0: invalid start byte">>),
      Raised("KeyboardInterrupt", <<>>) }

InitTool ==
    /\ env = CompleteEnv
    /\ calls = [c \in CallIds |-> IdleCall]
    /\ wire = [c \in CallIds |-> <<>>]
    /\ input = <<>>
    /\ verdicts = <<>>
    /\ toolCalls = [c \in CallIds |-> IdleToolCall]

\* The agent runs a tool request through the middleware.
Invoke(c, id) ==
    /\ toolCalls[c].pc = "idle"
    /\ toolCalls' = [toolCalls EXCEPT ![c] = [@ EXCEPT !.pc = "handling", !.id = id]]
    /\ UNCHANGED <<env, calls, wire, input, verdicts>>

\* handler(request) ends.
HandlerEnds(c, handled) ==
    /\ toolCalls[c].pc = "handling"
    /\ toolCalls' = [toolCalls EXCEPT ![c] = [@ EXCEPT !.pc = "handled", !.handled = handled]]
    /\ UNCHANGED <<env, calls, wire, input, verdicts>>

\* handle_tool_errors ends.
Translate(c) ==
    /\ toolCalls[c].pc = "handled"
    /\ toolCalls' = [toolCalls EXCEPT ![c] =
          [@ EXCEPT !.pc = "ended",
                    !.result = handle_tool_errors(toolCalls[c].id, toolCalls[c].handled)]]
    /\ UNCHANGED <<env, calls, wire, input, verdicts>>

NextTool ==
    \E c \in CallIds :
        \/ \E id \in ToolCallIds : Invoke(c, id)
        \/ \E handled \in HandlerOutcomes(toolCalls[c].id) : HandlerEnds(c, handled)
        \/ Translate(c)

SpecTool == InitTool /\ [][NextTool]_vars

\* ------------------------------------------------------------ calls run on

\* Tool calls through both entry points, with the environment as the
\* process found it.
NextLive ==
    /\ \E c \in CallIds :
          \/ \E loop \in BOOLEAN : Run(c, TestQuery, loop)
          \/ Arun(c, TestQuery)
          \/ LoadConfig(c)
          \/ OpenClient(c)
          \/ Post(c)
          \/ \E resp \in HostResponses : Receive(c, resp)
          \/ Exit(c)
    /\ UNCHANGED <<input, verdicts, toolCalls>>

\* A call that has been entered runs on: the event loop resumes a coroutine
\* that can continue, and the transport answers, fails or, after the
\* 30-second timeout at the latest, times out.
Fairness ==
    \A c \in CallIds :
        /\ WF_vars(LoadConfig(c) /\ UNCHANGED <<input, verdicts, toolCalls>>)
        /\ WF_vars(OpenClient(c) /\ UNCHANGED <<input, verdicts, toolCalls>>)
        /\ WF_vars(Post(c) /\ UNCHANGED <<input, verdicts, toolCalls>>)
        /\ WF_vars((\E resp \in HostResponses : Receive(c, resp)) /\ UNCHANGED <<input, verdicts, toolCalls>>)
        /\ WF_vars(Exit(c) /\ UNCHANGED <<input, verdicts, toolCalls>>)

SpecLive == InitHost /\ [][NextLive]_vars /\ Fairness

\* ------------------------------------------------------------------ properties

Done(c) == calls[c].pc = "done"

\* The executor's coroutine was started for the call (it is not a _run that
\* asyncio.run refused).
EnteredExecute(c) ==
    calls[c].pc # "idle" /\ ~(calls[c].entry = "_run" /\ calls[c].inLoop)

\* A required environment value that is absent or empty.
AbsentOrEmpty(v) == v = Unset \/ v = Val("")

ConfigurationComplete == \A i \in 1..3 : ~AbsentOrEmpty(env[EnvNames[i]])

Is2xx(status) == status \in 200..299

\* v is {"error": s} for a string s.
IsErrorRecord(v) ==
    /\ v.type = "object"
    /\ Len(v.items) = 1
    /\ v.items[1][1] = "error"
    /\ v.items[1][2].type = "string"

ErrorText(v) == v.items[1][2].text

Answered(c) == calls[c].response.kind = "response"

TransportFailed(c) == calls[c].response.kind = "fail"

\* C1: when the endpoint answers with a non-2xx status, the call returns
\* (does not raise) an error record whose text contains the status code and
\* the text of the response body.
C1_NonSuccessStatusGivesErrorRecord ==
    \A c \in CallIds :
        Done(c) /\ Answered(c) /\ ~Is2xx(calls[c].response.status) =>
            /\ calls[c].outcome.kind = "return"
            /\ IsErrorRecord(calls[c].outcome.value)
            /\ Contains(ErrorText(calls[c].outcome.value), ToString(calls[c].response.status))
            /\ Contains(ErrorText(calls[c].outcome.value), Text(calls[c].response.body))

\* A call answered with HTTP 500 and body "server error" has returned its
\* error record.
C1_Witness ==
    \E c \in CallIds :
        /\ Done(c)
        /\ calls[c].response = Answer(500, PlainBody)
        /\ calls[c].outcome.kind = "return"
        /\ Contains(ErrorText(calls[c].outcome.value), "500")
        /\ Contains(ErrorText(calls[c].outcome.value), "server error")

\* C2: when the transport fails (name resolution, connection refused,
\* timeout), the call returns an error record whose text contains the
\* description of the failure; the transport's exception does not propagate.
C2_TransportFailureGivesErrorRecord ==
    \A c \in CallIds :
        Done(c) /\ TransportFailed(c) =>
            /\ calls[c].outcome.kind = "return"
            /\ IsErrorRecord(calls[c].outcome.value)
            /\ Contains(ErrorText(calls[c].outcome.value), calls[c].response.desc)

\* A call whose connection was refused has returned its error record.
C2_Witness ==
    \E c \in CallIds :
        /\ Done(c)
        /\ calls[c].response = Failure("ConnectError", "[Errno 111] Connection refused")
        /\ calls[c].outcome.kind = "return"
        /\ IsErrorRecord(calls[c].outcome.value)

\* C3: when the endpoint answers 2xx with a body that is not valid JSON,
\* the call returns the fixed record {"error": "Invalid JSON response from
\* GraphDB."}, whatever the body, and does not raise.
C3_InvalidJsonGivesFixedRecord ==
    \A c \in CallIds :
        Done(c) /\ Answered(c) /\ Is2xx(calls[c].response.status)
                /\ calls[c].response.body \notin JsonBodies =>
            calls[c].outcome = Return(ErrorRecord(<<"Invalid JSON response from GraphDB.">>))

\* C4: when the endpoint answers 2xx with a valid JSON body, the call
\* returns exactly the decoded value of that body; a SPARQL-results body
\* keeps its "results" member.
C4_ValidJsonReturnedUnchanged ==
    \A c \in CallIds :
        Done(c) /\ Answered(c) /\ Is2xx(calls[c].response.status)
                /\ calls[c].response.body \in JsonBodies =>
            /\ calls[c].outcome = json(calls[c].response.body)
            /\ calls[c].outcome.kind = "return"
            /\ calls[c].response.body = ResultsBody =>
                  /\ HasKey(calls[c].outcome.value, "results")
                  /\ Member(calls[c].outcome.value, "results") = JObj(<< <<"bindings", JArr(<<>>)>> >>)

\* A call answered 200 with {"results": {"bindings": []}} has returned an
\* object with the key "results".
C4_Witness ==
    \E c \in CallIds :
        /\ Done(c)
        /\ calls[c].response = Answer(200, ResultsBody)
        /\ calls[c].outcome.kind = "return"
        /\ HasKey(calls[c].outcome.value, "results")

\* The configuration failure of get_config: a ValueError raised before any
\* response exists.
IsConfigurationFailure(c) ==
    /\ calls[c].outcome.kind = "raise"
    /\ calls[c].outcome.exc = "ValueError"
    /\ calls[c].response = NoResponse

\* C5: every call of the executor ends with a returned value (the payload
\* or an error record) or with a configuration failure; nothing else
\* propagates as an exception.
C5_OnlyConfigurationFailurePropagates ==
    \A c \in CallIds :
        Done(c) /\ EnteredExecute(c) =>
            calls[c].outcome.kind = "return" \/ IsConfigurationFailure(c)

\* C6: for each of the three required environment values, if it is absent
\* or empty the call fails, and no HTTP client is opened and no request is
\* sent by the call.
C6_MissingValueMeansNoNetwork ==
    \A i \in 1..3 :
        AbsentOrEmpty(env[EnvNames[i]]) =>
            \A c \in CallIds :
                /\ calls[c].client = "none"
                /\ wire[c] = <<>>
                /\ Done(c) => calls[c].outcome.kind = "raise"

\* With only the password empty, a call has run get_config and failed.
C6_Witness ==
    /\ env["GRAPHDB_PASSWORD"] = Val("")
    /\ ~AbsentOrEmpty(env["GRAPHDB_URL"])
    /\ ~AbsentOrEmpty(env["GRAPHDB_USER"])
    /\ \E c \in CallIds :
          Done(c) /\ EnteredExecute(c) /\ calls[c].outcome.kind = "raise"

HitFailure(c) ==
    \/ TransportFailed(c)
    \/ Answered(c) /\ ~Is2xx(calls[c].response.status)
    \/ Answered(c) /\ calls[c].response.body \notin JsonBodies

\* C8 as stated: a returned value is an object with the key "error" exactly
\* when the call hit a non-2xx status, a transport failure or an undecodable
\* body, so the returned value alone tells success from error.
C8_ErrorKeyExactlyOnFailure ==
    \A c \in CallIds :
        Done(c) /\ calls[c].outcome.kind = "return" =>
            (HasKey(calls[c].outcome.value, "error") <=> HitFailure(c))

\* C8 as amended: a returned value is an error record whenever the call hit
\* a failure and is the store's decoded payload otherwise; it has the key
\* "error" exactly when the call hit a failure or the store's own payload
\* has that key.
C8_ErrorRecordOnFailurePayloadOtherwise ==
    \A c \in CallIds :
        Done(c) /\ calls[c].outcome.kind = "return" =>
            /\ HitFailure(c) => IsErrorRecord(calls[c].outcome.value)
            /\ ~HitFailure(c) => calls[c].outcome = json(calls[c].response.body)
            /\ HasKey(calls[c].outcome.value, "error") <=>
                  (HitFailure(c) \/ calls[c].response.body = ErrorKeyBody)

\* A call answered 200 with the JSON body {"error": "boom"} has returned an
\* object with the key "error" although it hit no failure.
C8_Witness ==
    \E c \in CallIds :
        /\ Done(c)
        /\ calls[c].response = Answer(200, ErrorKeyBody)
        /\ calls[c].outcome.kind = "return"
        /\ HasKey(calls[c].outcome.value, "error")
        /\ ~HitFailure(c)

\* Two finished calls, c through _run and d through _arun, given the same
\* query and the same transport behaviour (the environment is common).  A
\* call that never reached the transport puts no condition on the behaviour.
SameInputs(c, d) ==
    /\ Done(c) /\ calls[c].entry = "_run"
    /\ Done(d) /\ calls[d].entry = "_arun"
    /\ calls[c].query = calls[d].query
    /\ \/ calls[c].response = calls[d].response
       \/ calls[c].response = NoResponse
       \/ calls[d].response = NoResponse

\* C9 as stated: for every query, environment and transport behaviour _run
\* and _arun produce the same outcome and cause the same HTTP request.
C9_RunEqualsArun ==
    \A c, d \in CallIds :
        SameInputs(c, d) =>
            calls[c].outcome = calls[d].outcome /\ wire[c] = wire[d]

\* C9 as amended: the same holds when _run is called from a thread that
\* runs no event loop; called from a thread that runs one, _run raises
\* RuntimeError and causes no request.
C9_RunEqualsArunOutsideLoop ==
    \A c, d \in CallIds :
        SameInputs(c, d) =>
            IF calls[c].inLoop
            THEN calls[c].outcome.kind = "raise" /\ calls[c].outcome.exc = "RuntimeError"
                 /\ wire[c] = <<>>
            ELSE calls[c].outcome = calls[d].outcome /\ wire[c] = wire[d]

\* A _run call outside an event loop and an _arun call with the same query
\* were both answered 200 with the results body and returned the same value.
C9_Witness ==
    \E c, d \in CallIds :
        /\ SameInputs(c, d)
        /\ ~calls[c].inLoop
        /\ calls[c].response = Answer(200, ResultsBody)
        /\ calls[d].response = Answer(200, ResultsBody)
        /\ calls[c].outcome.kind = "return"
        /\ calls[c].outcome = calls[d].outcome
        /\ Len(wire[c]) = 1

Posted(c) == calls[c].pc \in {"awaiting", "exiting"} \/ (Done(c) /\ calls[c].clientId # 0)

\* C11: with calls running concurrently, every call gets the response to its
\* own request (the one carrying its query, sent by its client) and its
\* outcome comes from that response; the transport receives exactly one
\* request per call that reached it.
C11_NoCrossTalk ==
    /\ \A c \in CallIds :
          calls[c].response # NoResponse =>
              /\ wire[c] = <<calls[c].answers.request>>
              /\ calls[c].answers.request.data = << <<"query", calls[c].query>> >>
              /\ calls[c].answers.conn = calls[c].clientId
              /\ \A d \in CallIds \ {c} : calls[c].answers.conn # calls[d].clientId
              /\ Done(c) => calls[c].outcome = Handlers(TryBody(calls[c].response), calls[c].response)
    /\ Cardinality({ ci \in CallIds \X (1..2) : ci[2] \in DOMAIN wire[ci[1]] })
          = Cardinality({ c \in CallIds : Posted(c) })

\* The second call, made while the first was running, has returned the
\* payload of its own answer while the first, whose own request failed, has
\* not returned yet.
C11_Witness ==
    /\ calls[1].pc = "exiting"
    /\ TransportFailed(1)
    /\ Done(2)
    /\ calls[2].query # calls[1].query
    /\ calls[2].response = Answer(200, ResultsBody)
    /\ calls[2].outcome.kind = "return"
    /\ HasKey(calls[2].outcome.value, "results")

\* The call passed configuration loading.
PassedConfig(c) == calls[c].config # NoConfig

\* C12: every call that passes configuration loading opens a client of its
\* own, shared with no other call, and the client is closed before the call
\* hands its outcome to the caller on every path, so a finished call leaves
\* no client open.
C12_OwnClientAlwaysReleased ==
    \A c \in CallIds :
        /\ calls[c].pc \in {"client_open", "awaiting", "exiting"} =>
              calls[c].client = "open" /\ calls[c].clientId # 0
        /\ \A d \in CallIds \ {c} : calls[c].clientId # 0 => calls[c].clientId # calls[d].clientId
        /\ calls[c].outcome # NoResult => calls[c].client # "open"
        /\ Done(c) /\ PassedConfig(c) => calls[c].client = "closed"

\* Two calls have finished, one after a transport failure and one after a
\* body that is not JSON, and both clients are closed.
C12_Witness ==
    \E c, d \in CallIds :
        /\ Done(c) /\ TransportFailed(c) /\ calls[c].client = "closed"
        /\ Done(d) /\ calls[d].pending.exc = "JSONDecodeError" /\ calls[d].client = "closed"
        /\ calls[c].clientId # calls[d].clientId

\* C13: two calls of the executor made in sequence with the same query, the
\* same environment and a transport that treats equal requests alike end in
\* identical outcomes: the second call sends the same request as the first
\* and, given the same response, hands back the same outcome.
C13_SecondCallSameAsFirst ==
    \A c, d \in CallIds :
        c < d /\ Done(c) /\ Done(d) /\ EnteredExecute(c) /\ EnteredExecute(d)
              /\ calls[c].query = calls[d].query =>
            /\ wire[c] = wire[d]
            /\ calls[c].response = calls[d].response => calls[c].outcome = calls[d].outcome

\* The first call finished with the results payload, then the second call
\* was made with the same query, got the same answer and returned the same.
C13_Witness ==
    /\ Done(1) /\ Done(2)
    /\ calls[1].query = calls[2].query
    /\ calls[1].response = Answer(200, ResultsBody)
    /\ calls[2].response = Answer(200, ResultsBody)
    /\ Len(wire[2]) = 1
    /\ calls[2].outcome.kind = "return"
    /\ calls[2].outcome = calls[1].outcome


\* C14: the executor never gates on validation. Whatever the query, also
\* one validate_sparql_query reports invalid, a call made with complete
\* configuration has sent the request carrying that query by the time it
\* ends, and no step of a call runs the validator.
C14_ExecutorNeverGatesOnValidation ==
    /\ verdicts = <<>>
    /\ \A c \in CallIds :
          Done(c) /\ EnteredExecute(c) /\ ConfigurationComplete =>
              \E i \in DOMAIN wire[c] : wire[c][i].data = << <<"query", calls[c].query>> >>

\* The query of test_arun_success, which the validator rejects, was sent and
\* its call returned the payload with the "results" key.
C14_Witness ==
    \E c \in CallIds :
        /\ Done(c)
        /\ calls[c].query = TestQuery
        /\ ~validate_sparql_query(calls[c].query).is_valid
        /\ wire[c] = <<PostRequest(calls[c].config, TestQuery)>>
        /\ calls[c].outcome.kind = "return"
        /\ HasKey(calls[c].outcome.value, "results")


\* ------------------------------------------------ properties of the validator

\* The query's characters.
QueryText == Flatten(input)

Lacks(prefix) == ~In(Chars(prefix), QueryText)

LacksAPrefix == Lacks("pfm:") \/ Lacks("ex:")

\* Trimmed and upper-cased, the query starts with one of the four keywords.
StartsWithKeyword ==
    LET start == upper(strip(QueryText))
    IN \E kw \in {"SELECT", "ASK", "CONSTRUCT", "DESCRIBE"} : startswith(start, Chars(kw))

Opening == Len(SelectSeq(QueryText, LAMBDA ch : ch = "{"))
Closing == Len(SelectSeq(QueryText, LAMBDA ch : ch = "}"))

KeywordMessage == <<"Query must start with SELECT, ASK, CONSTRUCT, or DESCRIBE">>
BalanceMessage == <<"Unbalanced braces in SPARQL query">>
PresenceMessage == <<"Missing WHERE clause with braces">>

\* The message that names exactly the prefixes the query lacks, pfm: first.
MissingPrefixesMessage ==
    CASE Lacks("pfm:") /\ Lacks("ex:") -> <<"Missing required prefixes: ", "pfm:", ", ", "ex:">>
      [] Lacks("pfm:") /\ ~Lacks("ex:") -> <<"Missing required prefixes: ", "pfm:">>
      [] ~Lacks("pfm:") /\ Lacks("ex:") -> <<"Missing required prefixes: ", "ex:">>
      [] OTHER -> <<>>

\* C15: a query that lacks "pfm:" or "ex:" as a substring is invalid, with
\* the message "Missing required prefixes: " followed by exactly the missing
\* prefixes, comma-separated, pfm: before ex:.
C15_MissingPrefixesListed ==
    \A i \in DOMAIN verdicts :
        LacksAPrefix => verdicts[i] = Verdict(FALSE, MissingPrefixesMessage)

\* A query with pfm: and without ex: was told that ex: alone is missing.
C15_Witness ==
    /\ ~Lacks("pfm:") /\ Lacks("ex:")
    /\ verdicts # <<>>
    /\ verdicts[1].message = <<"Missing required prefixes: ", "ex:">>


\* C16: for a query with both prefixes, the keyword rule passes exactly when
\* the trimmed, upper-cased query starts with SELECT, ASK, CONSTRUCT or
\* DESCRIBE; the case of the keyword does not matter, so a query that starts
\* with lowercase select and has both prefixes and balanced, non-empty
\* braces is valid.
C16_KeywordRuleIgnoresCase ==
    verdicts # <<>> /\ ~LacksAPrefix =>
        LET keyword == StartsWithKeyword
            lowerSelect == /\ startswith(QueryText, <<"s", "e", "l", "e", "c", "t">>)
                           /\ Opening = Closing
                           /\ Opening > 0
        IN \A i \in DOMAIN verdicts :
              /\ verdicts[i] = Verdict(FALSE, KeywordMessage) <=> ~keyword
              /\ lowerSelect => verdicts[i] = Verdict(TRUE, <<"Query is valid">>)

\* The query written with a lowercase select, both prefixes and one pair of
\* braces was found valid.
C16_Witness ==
    /\ input = PrefixedQuery
    /\ verdicts # <<>>
    /\ verdicts[1] = Verdict(TRUE, <<"Query is valid">>)

\* C17: a query that passes the prefix rule and the keyword rule and whose
\* number of `{` differs from its number of `}` is invalid, with the message
\* "Unbalanced braces in SPARQL query".
C17_UnbalancedBracesReported ==
    verdicts # <<>> /\ ~LacksAPrefix /\ StartsWithKeyword /\ Opening # Closing =>
        \A i \in DOMAIN verdicts : verdicts[i] = Verdict(FALSE, BalanceMessage)

\* A query with both prefixes, a keyword and more `}` than `{` got the
\* brace-balance message.
C17_Witness ==
    /\ ~LacksAPrefix /\ StartsWithKeyword /\ Opening < Closing
    /\ verdicts # <<>>
    /\ verdicts[1] = Verdict(FALSE, BalanceMessage)

\* C18: a query that passes the prefix, keyword and brace-balance rules gets
\* the message "Missing WHERE clause with braces" exactly when it lacks a `{`
\* or lacks a `}`; no query with only one kind of brace gets this message.
C18_MissingWhereOnlyWithoutBraces ==
    verdicts # <<>> =>
        LET reached == ~LacksAPrefix /\ StartsWithKeyword /\ Opening = Closing
            lacksBrace == Opening = 0 \/ Closing = 0
            oneKind == (Opening = 0) # (Closing = 0)
        IN \A i \in DOMAIN verdicts :
              /\ reached => (verdicts[i] = Verdict(FALSE, PresenceMessage) <=> lacksBrace)
              /\ oneKind => verdicts[i].message # PresenceMessage

\* A query with both prefixes, a keyword and no brace at all got the message.
C18_Witness ==
    /\ ~LacksAPrefix /\ StartsWithKeyword /\ Opening = 0 /\ Closing = 0
    /\ verdicts # <<>>
    /\ verdicts[1] = Verdict(FALSE, PresenceMessage)

\* The rules a query violates, numbered in the order prefix, keyword, brace
\* balance, brace presence.
Violated ==
    {k \in 1..4 : CASE k = 1 -> LacksAPrefix
                    [] k = 2 -> ~StartsWithKeyword
                    [] k = 3 -> Opening # Closing
                    [] k = 4 -> Opening = 0 \/ Closing = 0}

RuleMessage(k) ==
    CASE k = 1 -> MissingPrefixesMessage
      [] k = 2 -> KeywordMessage
      [] k = 3 -> BalanceMessage
      [] k = 4 -> PresenceMessage

\* C19: the rules are applied in the order prefix, keyword, brace balance,
\* brace presence, and an invalid query gets the message of the first rule
\* in this order that it violates, also when it violates several.
C19_FirstViolatedRuleWins ==
    verdicts # <<>> =>
        LET violated == Violated IN
        violated # {} =>
            LET first == CHOOSE k \in violated : \A j \in violated : k <= j
            IN \A i \in DOMAIN verdicts : verdicts[i] = Verdict(FALSE, RuleMessage(first))

\* A query that violates all four rules got the message of the prefix rule.
C19_Witness ==
    /\ Violated = 1..4
    /\ verdicts # <<>>
    /\ verdicts[1] = Verdict(FALSE, MissingPrefixesMessage)

\* C20: the result is (True, "Query is valid") if and only if the query
\* passes all four rules, that is, has both prefixes, starts with one of the
\* four keywords and has equal, non-zero counts of `{` and `}`; every other
\* query gets False with a diagnostic message.
C20_ValidExactlyWhenAllRulesPass ==
    verdicts # <<>> =>
        LET allPass == /\ ~Lacks("pfm:") /\ ~Lacks("ex:")
                       /\ StartsWithKeyword
                       /\ Opening = Closing /\ Opening > 0
            diagnostics == {RuleMessage(k) : k \in 1..4} \ {<<>>}
        IN \A i \in DOMAIN verdicts :
              /\ verdicts[i].is_valid <=> allPass
              /\ verdicts[i] = Verdict(TRUE, <<"Query is valid">>) <=> allPass
              /\ ~allPass => /\ verdicts[i].is_valid = FALSE
                             /\ verdicts[i].message \in diagnostics

\* Called twice on a query with both prefixes, a keyword and one pair of
\* braces, the validator answered (True, "Query is valid") both times.
C20_Witness ==
    /\ Opening = 1 /\ Closing = 1
    /\ Len(verdicts) = 2
    /\ verdicts[1] = Verdict(TRUE, <<"Query is valid">>)
    /\ verdicts[2] = verdicts[1]


\* C21: validate_sparql_query is a pure, deterministic and total function of
\* the query string: on every string, the empty and the whitespace-only ones
\* included, it returns a (bool, message) pair; two calls on the same string
\* return the same pair whatever happened in between; and a call reads or
\* changes nothing but its argument.
C21_ValidatePureDeterministicTotal ==
    /\ [](\A i \in DOMAIN verdicts :
            /\ verdicts[i].is_valid \in BOOLEAN
            /\ verdicts[i].message # <<>>
            /\ verdicts[i] = verdicts[1])
    /\ [][verdicts' # verdicts =>
            /\ Len(verdicts') = Len(verdicts) + 1
            /\ SubSeq(verdicts', 1, Len(verdicts)) = verdicts
            /\ UNCHANGED <<env, calls, wire, input>>]_vars

\* Called twice on a string of whitespace only, the validator returned the
\* same (False, message) pair both times.
C21_Witness ==
    /\ input = <<" ">>
    /\ Len(verdicts) = 2
    /\ verdicts[1].is_valid = FALSE
    /\ verdicts[2] = verdicts[1]


\* ------------------------------------- properties with a changing environment

\* The value the environment holds for a name, as a string.
EnvText(name) == env[name].val

\* C22: the request a call with loaded configuration sends is a POST to the
\* endpoint URL of that configuration, with Content-Type
\* application/x-www-form-urlencoded and Accept
\* application/sparql-results+json, a form body whose only field `query`
\* holds the caller's query string unaltered, HTTP Basic authentication from
\* the username and password loaded in the same call, and a timeout of 30
\* seconds whatever the caller passed.
C22_RequestShape ==
    \A c \in CallIds :
        \A i \in DOMAIN wire[c] :
            LET request == wire[c][i] IN
            /\ i = 1
            /\ request.method = "POST"
            /\ calls[c].config # NoConfig
            /\ request.url = calls[c].config.url
            /\ \E h \in DOMAIN request.headers :
                  request.headers[h] = <<"Content-Type", "application/x-www-form-urlencoded">>
            /\ \E h \in DOMAIN request.headers :
                  request.headers[h] = <<"Accept", "application/sparql-results+json">>
            /\ request.data = << <<"query", calls[c].query>> >>
            /\ request.auth = [scheme |-> "Basic",
                               username |-> calls[c].config.username,
                               password |-> calls[c].config.password]
            /\ request.timeout = 30

\* Two calls have sent their requests, one to each endpoint, each signed
\* with the credentials that were in force when it loaded its configuration.
C22_Witness ==
    \E c, d \in CallIds :
        /\ Len(wire[c]) = 1 /\ Len(wire[d]) = 1
        /\ wire[c][1].url = "http://db/sparql" /\ wire[c][1].auth.username = "alice"
        /\ wire[d][1].url = "http://db2/sparql" /\ wire[d][1].auth.username = "bob"

\* C23: each call loads the configuration exactly once, before it sends its
\* request, and nothing is kept between calls: the values the environment
\* holds when the call starts are the ones it uses, so with another
\* environment in force the next call goes to another endpoint with other
\* credentials, or fails where the one before succeeded.  (The call's first
\* step is get_config(): the environment cannot change between the two.)
C23_ConfigurationLoadedOncePerCall ==
    [][\A c \in CallIds :
          /\ calls[c].pc = "start" /\ calls'[c].pc # "start" =>
                IF ConfigurationComplete
                THEN /\ calls'[c].pc = "configured"
                     /\ calls'[c].config = [url |-> EnvText("GRAPHDB_URL"),
                                            username |-> EnvText("GRAPHDB_USER"),
                                            password |-> EnvText("GRAPHDB_PASSWORD")]
                ELSE /\ calls'[c].pc = "done"
                     /\ calls'[c].config = NoConfig
                     /\ calls'[c].outcome.kind = "raise"
          /\ calls[c].pc # "start" => calls'[c].config = calls[c].config
          /\ wire'[c] # wire[c] =>
                /\ calls[c].config # NoConfig
                /\ Len(wire'[c]) = 1
                /\ wire'[c][1].url = calls[c].config.url
                /\ wire'[c][1].auth.username = calls[c].config.username
                /\ wire'[c][1].auth.password = calls[c].config.password
      ]_vars

\* The first call returned the payload of the first endpoint; then the
\* password was emptied and the second call failed on its configuration.
C23_Witness ==
    /\ Done(1) /\ calls[1].outcome.kind = "return"
    /\ wire[1] # <<>> /\ wire[1][1].url = "http://db/sparql"
    /\ Done(2) /\ calls[2].outcome = Raise("ValueError", NotSetMsg("GRAPHDB_PASSWORD"))
    /\ wire[2] = <<>>

C24_EveryCallCompletesOnce ==
    /\ \A c \in CallIds : (calls[c].pc # "idle") ~> Done(c)
    /\ [](\A c \in CallIds : Done(c) <=> calls[c].outcome # NoResult)
    /\ [][\A c \in CallIds :
            calls[c].outcome # NoResult =>
                calls'[c].outcome = calls[c].outcome /\ calls'[c].pc = "done"]_vars

\* Every call has completed, one of them after its request timed out.
C24_Witness ==
    /\ \A c \in CallIds : Done(c) /\ calls[c].outcome # NoResult
    /\ \E c \in CallIds : calls[c].response = Failure("ReadTimeout", "")


\* ------------------------------------------------- properties of the translator

\* The text of the exception appears in the message.
CarriesText(content, arg) == \A k \in DOMAIN arg : Contains(content, arg[k])

\* The translator answered with a ToolMessage for this request that carries
\* the exception's text.
TranslatedToMessage(t) ==
    /\ t.result.kind = "return"
    /\ t.result.message.tool_call_id = t.id
    /\ Contains(t.result.message.content, "Tool error: Please check your input and try again. (")
    /\ CarriesText(t.result.message.content, t.handled.arg)

\* Exceptions that do not derive from Exception.
OutsideException == {"KeyboardInterrupt", "SystemExit", "GeneratorExit", "CancelledError"}

\* C25 as stated: whatever exception the handler raises, the translator
\* returns a ToolMessage with the request's call id and the exception text;
\* when the handler returns, its result is returned unchanged.
C25_NoToolFailureEscapes ==
    \A c \in CallIds :
        toolCalls[c].pc = "ended" =>
            IF toolCalls[c].handled.kind = "raise"
            THEN TranslatedToMessage(toolCalls[c])
            ELSE toolCalls[c].result = toolCalls[c].handled

\* C25, amended: an exception that derives from Exception is turned into a
\* ToolMessage with the request's call id and the exception text; any other
\* exception passes through the translator as it is; and when the handler
\* returns, its result is returned unchanged.
C25_ExceptionsBecomeToolMessages ==
    \A c \in CallIds :
        toolCalls[c].pc = "ended" =>
            IF toolCalls[c].handled.kind = "raise" /\ toolCalls[c].handled.exc \notin OutsideException
            THEN TranslatedToMessage(toolCalls[c])
            ELSE toolCalls[c].result = toolCalls[c].handled

\* The tool's configuration failure came back as a ToolMessage for the
\* request, naming the missing variable.
C25_Witness ==
    \E c \in CallIds :
        /\ toolCalls[c].pc = "ended"
        /\ toolCalls[c].handled = Raised("ValueError", NotSetMsg("GRAPHDB_URL"))
        /\ toolCalls[c].result.kind = "return"
        /\ toolCalls[c].result.message.tool_call_id = toolCalls[c].id
        /\ Contains(toolCalls[c].result.message.content, "GRAPHDB_URL")


\* ------------------------------------------- properties of configuration loading

\* The required values that are absent or empty, by their place in the fixed
\* order GRAPHDB_URL, GRAPHDB_USER, GRAPHDB_PASSWORD.
MissingValues == {i \in 1..3 : AbsentOrEmpty(env[EnvNames[i]])}

\* C27: when required values are missing or empty, get_config reports only
\* one of them, the first in the order GRAPHDB_URL, GRAPHDB_USER,
\* GRAPHDB_PASSWORD; a later one is named only when every earlier value is
\* set and non-empty.
C27_FirstMissingValueReported ==
    [][\A c \in CallIds :
          calls[c].pc = "start" /\ calls'[c].pc # "start" /\ MissingValues # {} =>
              \E i \in MissingValues :
                  /\ \A j \in MissingValues : i <= j
                  /\ calls'[c].outcome =
                        Raise("ValueError", <<EnvNames[i], " environment variable not set.">>)
                  /\ \A j \in 1..3 : j # i => ~Contains(calls'[c].outcome.arg, EnvNames[j])
      ]_vars

\* With nothing set the first call was told of GRAPHDB_URL; once the URL
\* was set, with user and password still missing, the second call was told
\* of GRAPHDB_USER.
C27_Witness ==
    /\ Done(1) /\ calls[1].outcome = Raise("ValueError", NotSetMsg("GRAPHDB_URL"))
    /\ Done(2) /\ calls[2].outcome = Raise("ValueError", NotSetMsg("GRAPHDB_USER"))
    /\ MissingValues = {2, 3}


\* ----------------------------------------------- queries that open with a prologue

\* Trimmed, the query begins with a PREFIX or BASE declaration (in any case).
BeginsWithDeclaration ==
    LET start == upper(strip(QueryText))
    IN \/ startswith(start, <<"P", "R", "E", "F", "I", "X">>)
       \/ startswith(start, <<"B", "A", "S", "E">>)

\* C28: a query that contains both required prefixes and begins with a
\* PREFIX or BASE declaration is invalid with the message "Query must start
\* with SELECT, ASK, CONSTRUCT, or DESCRIBE", whatever follows; no query that
\* declares its prefixes before its keyword is valid.
C28_PrologueFirstIsInvalid ==
    verdicts # <<>> /\ BeginsWithDeclaration =>
        LET both == ~LacksAPrefix
        IN \A i \in DOMAIN verdicts :
              /\ both => verdicts[i] = Verdict(FALSE, KeywordMessage)
              /\ ~verdicts[i].is_valid

\* A query that opens with PREFIX, names both prefixes and has one pair of
\* braces was turned down for its start.
C28_Witness ==
    /\ startswith(QueryText, <<"P", "R", "E", "F", "I", "X", " ">>)
    /\ ~LacksAPrefix
    /\ Opening = 1 /\ Closing = 1
    /\ verdicts # <<>>
    /\ verdicts[1] = Verdict(FALSE, KeywordMessage)


\* ------------------------------------------------------- the synchronous entry

\* C29: SPARQLTool._run starts an event loop of its own for each call.
\* Called from a thread that already runs one, it raises (RuntimeError)
\* before the configuration is loaded and before any request is sent,
\* whatever the environment holds; it goes on to get_config and ends with a
\* payload, an error record or one of the executor's own exceptions only
\* when no event loop runs in the calling thread.
C29_RunRefusedInsideLoop ==
    \A c \in CallIds :
        calls[c].entry = "_run" =>
            IF calls[c].inLoop
            THEN /\ calls[c].pc = "done"
                 /\ calls[c].outcome.kind = "raise"
                 /\ calls[c].outcome.exc = "RuntimeError"
                 /\ calls[c].config = NoConfig
                 /\ calls[c].client = "none"
                 /\ wire[c] = <<>>
            ELSE /\ calls[c].outcome.exc # "RuntimeError"
                 /\ Done(c) => IF ConfigurationComplete
                               THEN calls[c].config # NoConfig /\ Len(wire[c]) = 1
                               ELSE calls[c].outcome.exc = "ValueError"

\* With nothing configured, a _run call inside a running loop ended with
\* RuntimeError, not with the configuration failure, and sent nothing.
C29_Witness ==
    /\ ~ConfigurationComplete
    /\ \E c \in CallIds :
          /\ calls[c].entry = "_run" /\ calls[c].inLoop
          /\ Done(c)
          /\ calls[c].outcome.exc = "RuntimeError"
          /\ wire[c] = <<>>

====
